---- MODULE Spec2Model ----
(***************************************************************************)
(* Model of bluetooth::shim::Stack (main/shim/stack.cc): the orchestrator  *)
(* that starts and stops the Gd stack.  Caller threads invoke the public   *)
(* operations; the stack thread (the worker) runs the registry's module    *)
(* hooks and the tasks posted on the stack handler.  Start and Stop are    *)
(* modelled statement group by statement group, so that the reads of the   *)
(* init flags, the waits on the worker and the recursive mutex are visible.*)
(***************************************************************************)
EXTENDS Integers, Sequences, FiniteSets, TLC

\* ------------------------------------------------------------------ bounds
MaxCycles == 2      \* Start invocations explored in one behaviour
MaxQueue == 1       \* tasks pending on the stack handler
MaxToggles == 1     \* changes of a toggle in one behaviour

\* ------------------------------------------------------------------ threads
\* c1 drives the life cycle (as the thread that manages the stack does); c2 is
\* another thread, which queries the stack at any moment
Callers == {"c1", "c2"}
LifecycleCallers == {"c1"}
QueryCallers == {"c2"}
Worker == "gd_stack_thread"
Threads == Callers \cup {Worker}
NoThread == "none"

\* ------------------------------------------------------------------ state
VARIABLES
  is_running_,      \* Stack::is_running_
  stack_thread_,    \* Stack::stack_thread_   (0 = nullptr, else object id)
  stack_handler_,   \* Stack::stack_handler_
  acl_,             \* Stack::acl_
  btm_,             \* Stack::btm_
  mutex_,           \* Stack::mutex_ : [owner, count] of the recursive mutex
  reg,              \* Stack::stack_manager_ : [state, todo, started]
  flags,            \* common::InitFlags : the five toggles
  pc,               \* position of each thread
  op,               \* the Stack operation each caller is executing
  modules,          \* the local ModuleList of a Start in progress
  ret,              \* the value the last completed call returned to a thread
  wjob,             \* what the worker is executing
  stop_requested,   \* os::Thread::Stop() was called on the worker
  queue,            \* tasks pending on the stack handler
  handler_cleared,  \* Handler::Clear() was called on the stack handler
  alive,            \* ids of the heap objects not yet deleted
  next_id,          \* next fresh object id
  hci_events,       \* the calls made to hci_on_reset_complete/_shutting_down
  cfg,              \* how the current cycle was started, the toggle values
                    \* its Start read first, and the hci_events before it
  last_completed,   \* the last lifecycle call that returned
  cycles,           \* Start invocations so far
  aborted,          \* the process aborted
  abort_site,       \* the operation that aborted it
  toggles           \* toggle changes so far

vars == <<is_running_, stack_thread_, stack_handler_, acl_, btm_, mutex_, reg,
          flags, pc, op, modules, ret, wjob, stop_requested, queue,
          handler_cleared, alive, next_id, hci_events, cfg, last_completed,
          cycles, aborted, abort_site, toggles>>

\* groups used in UNCHANGED clauses
ptrs == <<stack_thread_, stack_handler_, acl_, btm_>>
heap == <<alive, next_id>>
hvars == <<queue, handler_cleared>>
wvars == <<wjob, stop_requested>>
avars == <<aborted, abort_site>>
gvars == <<cfg, last_completed, cycles, toggles>>

\* ------------------------------------------------------------------ helpers
Range(s) == {s[i] : i \in 1..Len(s)}

FlagNames == {"hci", "controller", "acl", "security", "core"}

FlagSets == [FlagNames -> BOOLEAN]

NoFlags == [n \in FlagNames |-> FALSE]

NoCfg == [kind |-> "none", flags |-> NoFlags, base |-> 0]

Getters == {"GetStackManager", "GetAcl", "GetBtm", "GetHandler"}

Queries == Getters \cup {"IsRunning"}

StartOps == {"StartIdleMode", "StartEverything"}

Operations == StartOps \cup {"Stop"} \cup Queries

NoRet == [op |-> "none", ptr |-> 0, bool |-> FALSE]

\* &stack_manager_: the registry is a member of the singleton, never deleted
AddressOfStackManager == 1

\* std::lock_guard<std::recursive_mutex> lock(mutex_): the constructor returns
\* only when the mutex is free or already owned by the calling thread
CanLock(t) == mutex_.owner = NoThread \/ mutex_.owner = t

Locked(t) == [owner |-> t, count |-> mutex_.count + 1]

\* the lock_guard's destructor, run when the operation returns
Unlocked == IF mutex_.count > 1
            THEN [owner |-> mutex_.owner, count |-> mutex_.count - 1]
            ELSE [owner |-> NoThread, count |-> 0]

\* a caller's call has returned: it is executing no operation any more
OpCleared(t) == IF t \in Callers THEN [op EXCEPT ![t] = "none"] ELSE op

\* where a thread goes when its Stack call has returned
AfterCall(t) == IF t = Worker THEN "job" ELSE "returned"

\* ------------------------------------------------------------------ Init
Init ==
  /\ is_running_ = FALSE
  /\ stack_thread_ = 0
  /\ stack_handler_ = 0
  /\ acl_ = 0
  /\ btm_ = 0
  /\ mutex_ = [owner |-> NoThread, count |-> 0]
  /\ reg = [state |-> "down", todo |-> <<>>, started |-> <<>>]
  /\ flags \in FlagSets
  /\ pc = [t \in Threads |-> IF t = Worker THEN "absent" ELSE "idle"]
  /\ op = [t \in Callers |-> "none"]
  /\ modules = [t \in Callers |-> <<>>]
  /\ ret = [t \in Threads |-> NoRet]
  /\ wjob = "none"
  /\ stop_requested = FALSE
  /\ queue = 0
  /\ handler_cleared = FALSE
  /\ alive = {AddressOfStackManager}
  /\ next_id = AddressOfStackManager + 1
  /\ hci_events = <<>>
  /\ cfg = NoCfg
  /\ last_completed = "none"
  /\ cycles = 0
  /\ aborted = FALSE
  /\ abort_site = "none"
  /\ toggles = 0

\* ASSERT / ASSERT_LOG failing: the process aborts, nothing else changes
Abort(site) ==
  /\ aborted' = TRUE
  /\ abort_site' = site
  /\ UNCHANGED <<is_running_, ptrs, mutex_, reg, flags, pc, op, modules, ret,
                 wvars, hvars, heap, hci_events, gvars>>

\* ------------------------------------------------------------------ callers
\* A caller thread invokes a public operation of Stack::GetInstance()
Invoke(t, o) ==
  /\ ~aborted
  /\ t \in Callers
  /\ pc[t] = "idle"
  /\ o \in StartOps \cup {"Stop"} => t \in LifecycleCallers
  /\ o \in Queries => t \in QueryCallers
  /\ o \in StartOps => cycles < MaxCycles
  /\ pc' = [pc EXCEPT ![t] = o]
  /\ op' = [op EXCEPT ![t] = o]
  /\ cycles' = IF o \in StartOps THEN cycles + 1 ELSE cycles
  /\ UNCHANGED <<is_running_, ptrs, mutex_, reg, flags, modules, ret, wvars,
                 hvars, heap, hci_events, cfg, last_completed, toggles, avars>>

\* ------------------------------------------------------------------ queries
\* the value a getter hands back once its assertion has passed
GetterValue(g) ==
  CASE g = "GetStackManager" -> AddressOfStackManager
    [] g = "GetAcl" -> acl_
    [] g = "GetBtm" -> btm_
    [] g = "GetHandler" -> stack_handler_

\* GetBtm written without its assertion
GetterAssert_NotInGetBtm(g) == g # "GetBtm" => is_running_

\* ASSERT(is_running_) of the four getters
GetterAssert(g) == is_running_

\* lock; ASSERT(is_running_); return the field; unlock
Getter(t, g) ==
  /\ ~aborted
  /\ pc[t] = g
  /\ CanLock(t)
  /\ IF GetterAssert(g)
     THEN /\ ret' = [ret EXCEPT ![t] = [op |-> g, ptr |-> GetterValue(g),
                                             bool |-> FALSE]]
          /\ pc' = [pc EXCEPT ![t] = AfterCall(t)]
          /\ op' = OpCleared(t)
          /\ UNCHANGED <<is_running_, ptrs, mutex_, reg, flags, modules,
                         wvars, hvars, heap, hci_events, gvars, avars>>
     ELSE Abort(g)

GetStackManager(t) == Getter(t, "GetStackManager")

GetAcl(t) == Getter(t, "GetAcl")

GetBtm(t) == Getter(t, "GetBtm")

GetHandler(t) == Getter(t, "GetHandler")

\* IsRunning written without the lock
IsRunning_NoLock(t) ==
  /\ ~aborted
  /\ pc[t] = "IsRunning"
  /\ ret' = [ret EXCEPT ![t] = [op |-> "IsRunning", ptr |-> 0,
                                   bool |-> is_running_]]
  /\ pc' = [pc EXCEPT ![t] = AfterCall(t)]
  /\ op' = OpCleared(t)
  /\ UNCHANGED <<is_running_, ptrs, mutex_, reg, flags, modules, wvars,
                 hvars, heap, hci_events, gvars, avars>>

\* lock; return is_running_; unlock
IsRunning(t) ==
  /\ ~aborted
  /\ pc[t] = "IsRunning"
  /\ CanLock(t)
  /\ ret' = [ret EXCEPT ![t] = [op |-> "IsRunning", ptr |-> 0,
                                   bool |-> is_running_]]
  /\ pc' = [pc EXCEPT ![t] = AfterCall(t)]
  /\ op' = OpCleared(t)
  /\ UNCHANGED <<is_running_, ptrs, mutex_, reg, flags, modules, wvars,
                 hvars, heap, hci_events, gvars, avars>>

\* ------------------------------------------------------------------ registry
\* stack_manager_.GetInstance<T>(): the started instance, nullptr if none
GetInstance(m) == m \in Range(reg.started)

\* operator new: a fresh object
New == next_id

Allocate ==
  /\ alive' = alive \cup {next_id}
  /\ next_id' = next_id + 1

\* ------------------------------------------------------------------ Start
\* the modules each branch of StartEverything adds, in the order of the adds
\* the transport branch written without its StorageModule
HciModules_NoStorage == <<"HciHal", "HciLayer", "Dumpsys">>

HciModules == <<"HciHal", "HciLayer", "StorageModule", "Dumpsys">>

ControllerModules == <<"Controller">>

AclModules == <<"AclManager">>

SecurityModules == <<"SecurityModule">>

CoreModules == <<"AttModule", "LeAdvertisingManager", "LeScanningManager",
                 "L2capClassicModule", "L2capLeModule", "ConnectabilityModule",
                 "DiscoverabilityModule", "InquiryModule", "NameModule",
                 "NameDbModule", "PageModule", "ScanModule", "StorageModule",
                 "L2cap">>

IdleModules == <<"StorageModule">>

\* the Start operations written without their assertion
StartAssert_Missing == TRUE

\* ASSERT_LOG(!is_running_, ...) at the head of both Start operations
StartAssert == ~is_running_

\* if (InitFlags::Gd<n>Enabled()) { modules.add<...>(); ... }: the toggle n is
\* read (cfg records the value the Start saw) and its modules are added
AddIfEnabled(t, from, to, n, added) ==
  /\ ~aborted
  /\ pc[t] = from
  /\ pc' = [pc EXCEPT ![t] = to]
  /\ modules' = [modules EXCEPT ![t] = IF flags[n] THEN modules[t] \o added
                                                   ELSE modules[t]]
  /\ cfg' = [cfg EXCEPT !.flags[n] = flags[n]]
  /\ UNCHANGED <<is_running_, ptrs, mutex_, reg, flags, op, ret, wvars, hvars,
                 heap, hci_events, last_completed, cycles, toggles, avars>>

\* lock; ASSERT_LOG(!is_running_); ModuleList modules; add<StorageModule>
StartIdleMode_Enter(t) ==
  /\ ~aborted
  /\ pc[t] = "StartIdleMode"
  /\ CanLock(t)
  /\ IF StartAssert
     THEN /\ mutex_' = Locked(t)
          /\ modules' = [modules EXCEPT ![t] = IdleModules]
          /\ cfg' = [kind |-> "StartIdleMode", flags |-> NoFlags,
                     base |-> Len(hci_events)]
          /\ pc' = [pc EXCEPT ![t] = "Start"]
          /\ UNCHANGED <<is_running_, ptrs, reg, flags, op, ret, wvars, hvars,
                         heap, hci_events, last_completed, cycles, toggles,
                         avars>>
     ELSE Abort("StartIdleMode")

\* lock; ASSERT_LOG(!is_running_); ModuleList modules
StartEverything_Enter(t) ==
  /\ ~aborted
  /\ pc[t] = "StartEverything"
  /\ CanLock(t)
  /\ IF StartAssert
     THEN /\ mutex_' = Locked(t)
          /\ modules' = [modules EXCEPT ![t] = <<>>]
          /\ cfg' = [kind |-> "StartEverything", flags |-> NoFlags,
                     base |-> Len(hci_events)]
          /\ pc' = [pc EXCEPT ![t] = "SE_hci"]
          /\ UNCHANGED <<is_running_, ptrs, reg, flags, op, ret, wvars, hvars,
                         heap, hci_events, last_completed, cycles, toggles,
                         avars>>
     ELSE Abort("StartEverything")

\* if (GdHciEnabled()) add HciHal, HciLayer, StorageModule, Dumpsys
StartEverything_Hci(t) ==
  AddIfEnabled(t, "SE_hci", "SE_controller", "hci", HciModules)

\* if (GdControllerEnabled()) add Controller
StartEverything_Controller(t) ==
  AddIfEnabled(t, "SE_controller", "SE_acl", "controller", ControllerModules)

\* if (GdAclEnabled()) add AclManager
StartEverything_Acl(t) ==
  AddIfEnabled(t, "SE_acl", "SE_security", "acl", AclModules)

\* if (GdSecurityEnabled()) add SecurityModule
StartEverything_Security(t) ==
  AddIfEnabled(t, "SE_security", "SE_core", "security", SecurityModules)

\* if (GdCoreEnabled()) add the core modules; then Start(&modules) is called
StartEverything_Core(t) ==
  AddIfEnabled(t, "SE_core", "Start", "core", CoreModules)

\* Start: ASSERT_LOG(!is_running_); stack_thread_ = new os::Thread(...)
Start_NewThread(t) ==
  /\ ~aborted
  /\ pc[t] = "Start"
  /\ IF StartAssert
     THEN /\ stack_thread_' = New
          /\ Allocate
          /\ pc' = [pc EXCEPT ![t] = "StartUp", ![Worker] = "idle"]
          /\ UNCHANGED <<is_running_, stack_handler_, acl_, btm_, mutex_, reg,
                         flags, op, modules, ret, wvars, hvars, hci_events,
                         gvars, avars>>
     ELSE Abort("Start")

\* Start: stack_manager_.StartUp(modules, stack_thread_) is entered
StartUp_Begin(t) ==
  /\ ~aborted
  /\ pc[t] = "StartUp"
  /\ reg' = [state |-> "starting", todo |-> modules[t],
             started |-> reg.started]
  /\ pc' = [pc EXCEPT ![t] = "StartUp_wait"]
  /\ UNCHANGED <<is_running_, ptrs, mutex_, flags, op, modules, ret, wvars,
                 hvars, heap, hci_events, gvars, avars>>

\* StartUp returns once every listed module has been started
StartUp_Return(t) ==
  /\ ~aborted
  /\ pc[t] = "StartUp_wait"
  /\ reg.state = "starting"
  /\ reg.todo = <<>>
  /\ wjob # "startup"
  /\ reg' = [reg EXCEPT !.state = "up"]
  /\ pc' = [pc EXCEPT ![t] = "Start_handler"]
  /\ UNCHANGED <<is_running_, ptrs, mutex_, flags, op, modules, ret, wvars,
                 hvars, heap, hci_events, gvars, avars>>

\* Start: stack_handler_ = new os::Handler(stack_thread_); Start returns
Start_NewHandler(t) ==
  /\ ~aborted
  /\ pc[t] = "Start_handler"
  /\ stack_handler_' = New
  /\ Allocate
  /\ queue' = 0
  /\ handler_cleared' = FALSE
  /\ pc' = [pc EXCEPT ![t] = IF op[t] = "StartIdleMode" THEN "SI_leaf"
                                                        ELSE "SE_leaf"]
  /\ UNCHANGED <<is_running_, stack_thread_, acl_, btm_, mutex_, reg, flags,
                 op, modules, ret, wvars, hci_events, gvars, avars>>

\* ASSERT(GetInstance<StorageModule>() != nullptr); is_running_ = true; unlock
StartIdleMode_Finish(t) ==
  /\ ~aborted
  /\ pc[t] = "SI_leaf"
  /\ IF GetInstance("StorageModule")
     THEN /\ is_running_' = TRUE
          /\ mutex_' = Unlocked
          /\ last_completed' = "start"
          /\ pc' = [pc EXCEPT ![t] = "idle"]
          /\ op' = OpCleared(t)
          /\ modules' = [modules EXCEPT ![t] = <<>>]
          /\ UNCHANGED <<ptrs, reg, flags, ret, wvars, hvars, heap,
                         hci_events, cfg, cycles, toggles, avars>>
     ELSE Abort("StartIdleMode_leaf")

\* StartEverything written without its two leaf assertions
StartEverything_Leaf_NoAssert(t) ==
  /\ ~aborted
  /\ pc[t] = "SE_leaf"
  /\ pc' = [pc EXCEPT ![t] = "SE_btm"]
  /\ UNCHANGED <<is_running_, ptrs, mutex_, reg, flags, op, modules, ret,
                 wvars, hvars, heap, hci_events, gvars, avars>>

\* ASSERT(GetInstance<StorageModule>() != nullptr);
\* ASSERT(GetInstance<shim::Dumpsys>() != nullptr)
StartEverything_Leaf(t) ==
  /\ ~aborted
  /\ pc[t] = "SE_leaf"
  /\ IF GetInstance("StorageModule") /\ GetInstance("Dumpsys")
     THEN /\ pc' = [pc EXCEPT ![t] = "SE_btm"]
          /\ UNCHANGED <<is_running_, ptrs, mutex_, reg, flags, op, modules,
                         ret, wvars, hvars, heap, hci_events, gvars, avars>>
     ELSE Abort("StartEverything_leaf")

\* if (GdCoreEnabled()) { ASSERT(GetInstance<shim::L2cap>() != nullptr);
\*                        btm_ = new Btm(stack_handler_, inquiry module); }
StartEverything_Btm(t) ==
  /\ ~aborted
  /\ pc[t] = "SE_btm"
  /\ IF flags["core"]
     THEN IF GetInstance("L2cap")
          THEN /\ btm_' = New
               /\ Allocate
               /\ pc' = [pc EXCEPT ![t] = "SE_legacy_acl"]
               /\ UNCHANGED <<is_running_, stack_thread_, stack_handler_, acl_,
                              mutex_, reg, flags, op, modules, ret, wvars,
                              hvars, hci_events, gvars, avars>>
          ELSE Abort("StartEverything_leaf")
     ELSE /\ pc' = [pc EXCEPT ![t] = "SE_legacy_acl"]
          /\ UNCHANGED <<is_running_, ptrs, mutex_, reg, flags, op, modules,
                         ret, wvars, hvars, heap, hci_events, gvars, avars>>

\* StartEverything written without the test of the core toggle around acl_
StartEverything_LegacyAcl_IgnoresCore(t) ==
  /\ ~aborted
  /\ pc[t] = "SE_legacy_acl"
  /\ pc' = [pc EXCEPT ![t] = "SE_running"]
  /\ IF flags["acl"]
     THEN /\ acl_' = New
          /\ Allocate
     ELSE UNCHANGED <<acl_, heap>>
  /\ UNCHANGED <<is_running_, stack_thread_, stack_handler_, btm_, mutex_, reg,
                 flags, op, modules, ret, wvars, hvars, hci_events, gvars,
                 avars>>

\* if (GdAclEnabled()) if (!GdCoreEnabled()) acl_ = new legacy::Acl(handler)
StartEverything_LegacyAcl(t) ==
  /\ ~aborted
  /\ pc[t] = "SE_legacy_acl"
  /\ pc' = [pc EXCEPT ![t] = "SE_running"]
  /\ IF flags["acl"] /\ ~flags["core"]
     THEN /\ acl_' = New
          /\ Allocate
     ELSE UNCHANGED <<acl_, heap>>
  /\ UNCHANGED <<is_running_, stack_thread_, stack_handler_, btm_, mutex_, reg,
                 flags, op, modules, ret, wvars, hvars, hci_events, gvars,
                 avars>>

\* is_running_ = true
StartEverything_SetRunning(t) ==
  /\ ~aborted
  /\ pc[t] = "SE_running"
  /\ is_running_' = TRUE
  /\ pc' = [pc EXCEPT ![t] = "SE_notify"]
  /\ UNCHANGED <<ptrs, mutex_, reg, flags, op, modules, ret, wvars, hvars,
                 heap, hci_events, gvars, avars>>

\* if (!GdCoreEnabled()) hci_on_reset_complete(); unlock; return
StartEverything_Notify(t) ==
  /\ ~aborted
  /\ pc[t] = "SE_notify"
  /\ hci_events' = IF flags["core"] THEN hci_events
                   ELSE Append(hci_events, "reset_complete")
  /\ mutex_' = Unlocked
  /\ last_completed' = "start"
  /\ pc' = [pc EXCEPT ![t] = "idle"]
  /\ op' = OpCleared(t)
  /\ modules' = [modules EXCEPT ![t] = <<>>]
  /\ UNCHANGED <<is_running_, ptrs, reg, flags, ret, wvars, hvars, heap, cfg,
                 cycles, toggles, avars>>

\* ------------------------------------------------------------------ Stop
\* Stop written without the test of the core toggle around the notification
Stop_Enter_AlwaysNotifies(t) ==
  /\ ~aborted
  /\ pc[t] = "Stop"
  /\ CanLock(t)
  /\ mutex_' = Locked(t)
  /\ hci_events' = Append(hci_events, "shutting_down")
  /\ pc' = [pc EXCEPT ![t] = "Stop_assert"]
  /\ UNCHANGED <<is_running_, ptrs, reg, flags, op, modules, ret, wvars, hvars,
                 heap, gvars, avars>>

\* lock; if (!GdCoreEnabled()) hci_on_shutting_down()
Stop_Enter(t) ==
  /\ ~aborted
  /\ pc[t] = "Stop"
  /\ CanLock(t)
  /\ mutex_' = Locked(t)
  /\ hci_events' = IF flags["core"] THEN hci_events
                   ELSE Append(hci_events, "shutting_down")
  /\ pc' = [pc EXCEPT ![t] = "Stop_assert"]
  /\ UNCHANGED <<is_running_, ptrs, reg, flags, op, modules, ret, wvars, hvars,
                 heap, gvars, avars>>

\* Stop written without its assertion
StopAssert_Missing == TRUE

\* ASSERT_LOG(is_running_, ...) of Stop
StopAssert == is_running_

\* Stop written without is_running_ = false
Stop_Assert_KeepsRunning(t) ==
  /\ ~aborted
  /\ pc[t] = "Stop_assert"
  /\ IF StopAssert
     THEN /\ pc' = [pc EXCEPT ![t] = "Stop_delete_acl"]
          /\ UNCHANGED <<is_running_, ptrs, mutex_, reg, flags, op, modules,
                         ret, wvars, hvars, heap, hci_events, gvars, avars>>
     ELSE Abort("Stop")

\* ASSERT_LOG(is_running_); is_running_ = false
Stop_Assert(t) ==
  /\ ~aborted
  /\ pc[t] = "Stop_assert"
  /\ IF StopAssert
     THEN /\ is_running_' = FALSE
          /\ pc' = [pc EXCEPT ![t] = "Stop_delete_acl"]
          /\ UNCHANGED <<ptrs, mutex_, reg, flags, op, modules, ret, wvars,
                         hvars, heap, hci_events, gvars, avars>>
     ELSE Abort("Stop")

\* Stop written without acl_ = nullptr
Stop_DeleteAcl_NoNull(t) ==
  /\ ~aborted
  /\ pc[t] = "Stop_delete_acl"
  /\ alive' = alive \ {acl_}
  /\ pc' = [pc EXCEPT ![t] = "Stop_delete_btm"]
  /\ UNCHANGED <<is_running_, ptrs, mutex_, reg, flags, op, modules, ret,
                 wvars, hvars, next_id, hci_events, gvars, avars>>

\* delete acl_; acl_ = nullptr
Stop_DeleteAcl(t) ==
  /\ ~aborted
  /\ pc[t] = "Stop_delete_acl"
  /\ alive' = alive \ {acl_}
  /\ acl_' = 0
  /\ pc' = [pc EXCEPT ![t] = "Stop_delete_btm"]
  /\ UNCHANGED <<is_running_, stack_thread_, stack_handler_, btm_, mutex_, reg,
                 flags, op, modules, ret, wvars, hvars, next_id, hci_events,
                 gvars, avars>>

\* Stop written without the deletion of btm_
Stop_DeleteBtm_Skipped(t) ==
  /\ ~aborted
  /\ pc[t] = "Stop_delete_btm"
  /\ pc' = [pc EXCEPT ![t] = "Stop_clear"]
  /\ UNCHANGED <<is_running_, ptrs, mutex_, reg, flags, op, modules, ret,
                 wvars, hvars, heap, hci_events, gvars, avars>>

\* delete btm_; btm_ = nullptr
Stop_DeleteBtm(t) ==
  /\ ~aborted
  /\ pc[t] = "Stop_delete_btm"
  /\ alive' = alive \ {btm_}
  /\ btm_' = 0
  /\ pc' = [pc EXCEPT ![t] = "Stop_clear"]
  /\ UNCHANGED <<is_running_, stack_thread_, stack_handler_, acl_, mutex_, reg,
                 flags, op, modules, ret, wvars, hvars, next_id, hci_events,
                 gvars, avars>>

\* stack_handler_->Clear(): the pending tasks are discarded
Stop_Clear(t) ==
  /\ ~aborted
  /\ pc[t] = "Stop_clear"
  /\ queue' = 0
  /\ handler_cleared' = TRUE
  /\ pc' = [pc EXCEPT ![t] = "ShutDown"]
  /\ UNCHANGED <<is_running_, ptrs, mutex_, reg, flags, op, modules, ret,
                 wvars, heap, hci_events, gvars, avars>>

\* stack_manager_.ShutDown() is entered
ShutDown_Begin(t) ==
  /\ ~aborted
  /\ pc[t] = "ShutDown"
  /\ reg' = [reg EXCEPT !.state = "stopping"]
  /\ pc' = [pc EXCEPT ![t] = "ShutDown_wait"]
  /\ UNCHANGED <<is_running_, ptrs, mutex_, flags, op, modules, ret, wvars,
                 hvars, heap, hci_events, gvars, avars>>

\* ShutDown returns once every started module has been stopped
ShutDown_Return(t) ==
  /\ ~aborted
  /\ pc[t] = "ShutDown_wait"
  /\ reg.state = "stopping"
  /\ reg.started = <<>>
  /\ wjob # "shutdown"
  /\ reg' = [reg EXCEPT !.state = "down"]
  /\ pc' = [pc EXCEPT ![t] = "Stop_delete_handler"]
  /\ UNCHANGED <<is_running_, ptrs, mutex_, flags, op, modules, ret, wvars,
                 hvars, heap, hci_events, gvars, avars>>

\* Stop written without delete stack_handler_
Stop_DeleteHandler_Leaks(t) ==
  /\ ~aborted
  /\ pc[t] = "Stop_delete_handler"
  /\ stack_handler_' = 0
  /\ pc' = [pc EXCEPT ![t] = "Stop_thread_stop"]
  /\ UNCHANGED <<is_running_, stack_thread_, acl_, btm_, mutex_, reg, flags,
                 op, modules, ret, wvars, hvars, heap, hci_events, gvars,
                 avars>>

\* delete stack_handler_; stack_handler_ = nullptr
Stop_DeleteHandler(t) ==
  /\ ~aborted
  /\ pc[t] = "Stop_delete_handler"
  /\ alive' = alive \ {stack_handler_}
  /\ stack_handler_' = 0
  /\ pc' = [pc EXCEPT ![t] = "Stop_thread_stop"]
  /\ UNCHANGED <<is_running_, stack_thread_, acl_, btm_, mutex_, reg, flags,
                 op, modules, ret, wvars, hvars, next_id, hci_events, gvars,
                 avars>>

\* stack_thread_->Stop(): the worker is told to leave its loop
Stop_ThreadStop(t) ==
  /\ ~aborted
  /\ pc[t] = "Stop_thread_stop"
  /\ stop_requested' = TRUE
  /\ pc' = [pc EXCEPT ![t] = "Stop_delete_thread"]
  /\ UNCHANGED <<is_running_, ptrs, mutex_, reg, flags, op, modules, ret, wjob,
                 hvars, heap, hci_events, gvars, avars>>

\* Stop returning without waiting for the worker to exit
Stop_DeleteThread_NoJoin(t) ==
  /\ ~aborted
  /\ pc[t] = "Stop_delete_thread"
  /\ alive' = alive \ {stack_thread_}
  /\ stack_thread_' = 0
  /\ stop_requested' = FALSE
  /\ mutex_' = Unlocked
  /\ last_completed' = "stop"
  /\ cfg' = NoCfg
  /\ pc' = [pc EXCEPT ![t] = "idle"]
  /\ op' = OpCleared(t)
  /\ UNCHANGED <<is_running_, stack_handler_, acl_, btm_, reg, flags, modules,
                 ret, wjob, hvars, next_id, hci_events, cycles, toggles,
                 avars>>

\* delete stack_thread_ (joins the worker); stack_thread_ = nullptr; unlock
Stop_DeleteThread(t) ==
  /\ ~aborted
  /\ pc[t] = "Stop_delete_thread"
  /\ pc[Worker] = "exited"
  /\ alive' = alive \ {stack_thread_}
  /\ stack_thread_' = 0
  /\ stop_requested' = FALSE
  /\ mutex_' = Unlocked
  /\ last_completed' = "stop"
  /\ cfg' = NoCfg
  /\ pc' = [pc EXCEPT ![t] = "idle", ![Worker] = "absent"]
  /\ op' = OpCleared(t)
  /\ UNCHANGED <<is_running_, stack_handler_, acl_, btm_, reg, flags, modules,
                 ret, wjob, hvars, next_id, hci_events, cycles, toggles,
                 avars>>

\* ------------------------------------------------------------------ worker
\* what a worker call-back may call on Stack::GetInstance()
WorkerCalls == {"IsRunning", "GetHandler"}

\* the worker takes its next piece of work: the registry's start-up (the start
\* hooks of the listed modules), the registry's shut-down (the stop hooks), or
\* a task pending on the stack handler
Worker_Begin(j) ==
  /\ ~aborted
  /\ pc[Worker] = "idle"
  /\ ~stop_requested
  /\ CASE j = "startup" -> reg.state = "starting" /\ reg.todo # <<>>
       [] j = "shutdown" -> reg.state = "stopping" /\ reg.started # <<>>
       [] j = "task" -> queue > 0
  /\ wjob' = j
  /\ queue' = IF j = "task" THEN queue - 1 ELSE queue
  /\ pc' = [pc EXCEPT ![Worker] = "job"]
  /\ UNCHANGED <<is_running_, ptrs, mutex_, reg, flags, op, modules, ret,
                 stop_requested, handler_cleared, heap, hci_events, gvars,
                 avars>>

\* the hook or task calls back into the Stack
Worker_Call(o) ==
  /\ ~aborted
  /\ pc[Worker] = "job"
  /\ o \in WorkerCalls
  /\ pc' = [pc EXCEPT ![Worker] = o]
  /\ ret' = [ret EXCEPT ![Worker] = NoRet]
  /\ UNCHANGED <<is_running_, ptrs, mutex_, reg, flags, op, modules, wvars,
                 hvars, heap, hci_events, gvars, avars>>

\* ModuleRegistry::Start of a list: the modules are started in list order, one
\* that is already started is skipped
RECURSIVE StartAll(_, _)
StartAll(list, started) ==
  IF list = <<>> THEN started
  ELSE StartAll(Tail(list),
                IF Head(list) \in Range(started) THEN started
                ELSE Append(started, Head(list)))

\* the hook or task returns: a start-up has started every listed module, a
\* shut-down has stopped every started module
Worker_Finish ==
  /\ ~aborted
  /\ pc[Worker] = "job"
  /\ reg' = CASE wjob = "startup" ->
                   [reg EXCEPT !.todo = <<>>,
                               !.started = StartAll(reg.todo, reg.started)]
              [] wjob = "shutdown" -> [reg EXCEPT !.started = <<>>]
              [] OTHER -> reg
  /\ wjob' = "none"
  /\ ret' = [ret EXCEPT ![Worker] = NoRet]
  /\ pc' = [pc EXCEPT ![Worker] = "idle"]
  /\ UNCHANGED <<is_running_, ptrs, mutex_, flags, op, modules,
                 stop_requested, hvars, heap, hci_events, gvars, avars>>

\* the worker leaves its loop after Thread::Stop()
Worker_Exit ==
  /\ ~aborted
  /\ pc[Worker] = "idle"
  /\ stop_requested
  /\ pc' = [pc EXCEPT ![Worker] = "exited"]
  /\ UNCHANGED <<is_running_, ptrs, mutex_, reg, flags, op, modules, ret,
                 wvars, hvars, heap, hci_events, gvars, avars>>

\* ------------------------------------------------------------------ environment
\* a task is posted on the stack handler
Handler_Post ==
  /\ ~aborted
  /\ stack_handler_ \in alive
  /\ ~handler_cleared
  /\ queue < MaxQueue
  /\ queue' = queue + 1
  /\ UNCHANGED <<is_running_, ptrs, mutex_, reg, flags, pc, op, modules, ret,
                 wvars, handler_cleared, heap, hci_events, gvars, avars>>

PointerGetters == {"GetAcl", "GetBtm", "GetHandler"}

\* the pointer a caller holds is dangling: its target has been deleted
Dangling(t) ==
  /\ ret[t].op \in PointerGetters
  /\ ret[t].ptr # 0
  /\ ret[t].ptr \notin alive

\* a caller consumes the value a query returned to it; a non-null pointer is
\* dereferenced, and on a deleted object the behaviour is undefined: the
\* process may crash or carry on
Use(t) ==
  /\ ~aborted
  /\ t \in Callers
  /\ pc[t] = "returned"
  /\ pc' = [pc EXCEPT ![t] = "idle"]
  /\ ret' = [ret EXCEPT ![t] = NoRet]
  /\ IF Dangling(t)
     THEN \E crash \in BOOLEAN :
            /\ aborted' = crash
            /\ abort_site' = IF crash THEN "Use" ELSE abort_site
     ELSE UNCHANGED avars
  /\ UNCHANGED <<is_running_, ptrs, mutex_, reg, flags, op, modules, wvars,
                 hvars, heap, hci_events, gvars>>

\* a toggle changes value at an arbitrary moment
InitFlags_Change(n) ==
  /\ ~aborted
  /\ n \in FlagNames
  /\ toggles < MaxToggles
  /\ toggles' = toggles + 1
  /\ flags' = [flags EXCEPT ![n] = ~flags[n]]
  /\ UNCHANGED <<is_running_, ptrs, mutex_, reg, pc, op, modules, ret, wvars,
                 hvars, heap, hci_events, cfg, last_completed, cycles, avars>>

\* ------------------------------------------------------------------ specification
CallerNext(t) ==
  \/ \E o \in Operations : Invoke(t, o)
  \/ StartIdleMode_Enter(t)
  \/ StartIdleMode_Finish(t)
  \/ StartEverything_Enter(t)
  \/ StartEverything_Hci(t)
  \/ StartEverything_Controller(t)
  \/ StartEverything_Acl(t)
  \/ StartEverything_Security(t)
  \/ StartEverything_Core(t)
  \/ Start_NewThread(t)
  \/ StartUp_Begin(t)
  \/ StartUp_Return(t)
  \/ Start_NewHandler(t)
  \/ StartEverything_Leaf(t)
  \/ StartEverything_Btm(t)
  \/ StartEverything_LegacyAcl(t)
  \/ StartEverything_SetRunning(t)
  \/ StartEverything_Notify(t)
  \/ Stop_Enter(t)
  \/ Stop_Assert(t)
  \/ Stop_DeleteAcl(t)
  \/ Stop_DeleteBtm(t)
  \/ Stop_Clear(t)
  \/ ShutDown_Begin(t)
  \/ ShutDown_Return(t)
  \/ Stop_DeleteHandler(t)
  \/ Stop_ThreadStop(t)
  \/ Stop_DeleteThread(t)
  \/ Use(t)

WorkerNext ==
  \/ \E j \in {"startup", "shutdown", "task"} : Worker_Begin(j)
  \/ \E o \in WorkerCalls : Worker_Call(o)
  \/ Worker_Finish
  \/ Worker_Exit

QueryNext(t) ==
  \/ GetStackManager(t)
  \/ GetAcl(t)
  \/ GetBtm(t)
  \/ GetHandler(t)
  \/ IsRunning(t)

Next ==
  \/ \E t \in Callers : CallerNext(t)
  \/ \E t \in Threads : QueryNext(t)
  \/ WorkerNext
  \/ Handler_Post

Spec == Init /\ [][Next]_vars

\* the same program with toggles that change at arbitrary moments
NextToggle ==
  \/ Next
  \/ \E n \in FlagNames : InitFlags_Change(n)

SpecToggle == Init /\ [][NextToggle]_vars

\* ------------------------------------------------------------------ properties
\* a query of thread t returns in this step
Returns(t, o) == pc[t] = o /\ pc'[t] # o

\* C1: IsRunning() returns false before the first Start has returned, true
\* whenever the last lifecycle call that returned is a Start, and false
\* whenever it is a Stop.
C1_IsRunningFollowsLifecycle ==
  [][\A t \in Threads :
       Returns(t, "IsRunning") =>
         /\ ret'[t].op = "IsRunning"
         /\ ret'[t].bool = (last_completed = "start")]_vars

\* IsRunning() has returned true after the second Start of a behaviour
C1_Witness ==
  /\ pc["c2"] = "returned"
  /\ ret["c2"].op = "IsRunning"
  /\ ret["c2"].bool
  /\ last_completed = "start"
  /\ cycles = 2

\* the entry step of the Start operation thread t has invoked
StartEntry(t) == StartIdleMode_Enter(t) \/ StartEverything_Enter(t)

\* C2: a Start operation invoked while the stack is Running never gets past
\* its is_running_ assertion: the only step it can take is the abort, and no
\* thread, handler or bridge pointer and no object changes meanwhile; objects
\* are created only while is_running_ is false.
C2_StartWhileRunningAborts ==
  /\ [](\A t \in Callers :
          (pc[t] \in StartOps /\ is_running_ /\ ~aborted /\ CanLock(t))
            => ENABLED StartEntry(t))
  /\ [][/\ \A t \in Callers :
             (pc[t] \in StartOps /\ is_running_) =>
               /\ pc'[t] = pc[t]
               /\ UNCHANGED <<ptrs, heap, reg, mutex_>>
        /\ next_id' # next_id => ~is_running_]_vars

\* StartEverything invoked after StartIdleMode, with no Stop between them,
\* has aborted
C2_Witness ==
  /\ aborted
  /\ abort_site = "StartEverything"
  /\ is_running_
  /\ cfg.kind = "StartIdleMode"
  /\ stack_thread_ \in alive

\* the steps of Stop that tear the stack down
TeardownPcs == {"Stop_delete_acl", "Stop_delete_btm", "Stop_clear", "ShutDown",
                "ShutDown_wait", "Stop_delete_handler", "Stop_thread_stop",
                "Stop_delete_thread"}

\* C3: Stop() invoked while the stack is Idle never gets past its is_running_
\* assertion: the only step left to it at the assertion is the abort, and no
\* teardown step (bridge deletion, handler Clear, registry ShutDown, thread
\* Stop) is taken.
C3_StopWhileIdleAborts ==
  /\ [](\A t \in Callers :
          (pc[t] = "Stop_assert" /\ ~is_running_ /\ ~aborted)
            => ENABLED Stop_Assert(t))
  /\ [][\A t \in Callers :
          (pc[t] \in {"Stop", "Stop_assert"} /\ ~is_running_) =>
            /\ pc'[t] \notin TeardownPcs
            /\ UNCHANGED <<ptrs, heap, reg, hvars, wvars>>]_vars

\* a second Stop, after a completed Start/Stop cycle, has aborted
C3_Witness ==
  /\ aborted
  /\ abort_site = "Stop"
  /\ last_completed = "stop"
  /\ pc["c1"] = "Stop_assert"

\* C4: a getter returns a value only while the stack is Running; called while
\* it is Idle, the only step the getter can take is the abort.
C4_GettersAbortWhenIdle ==
  /\ [](\A t \in Threads :
          (pc[t] \in Getters /\ ~is_running_ /\ ~aborted /\ CanLock(t))
            => ENABLED Getter(t, pc[t]))
  /\ [][\A t \in Threads : \A g \in Getters :
          (pc[t] = g /\ ~is_running_) => pc'[t] = g /\ ret'[t] = ret[t]]_vars

\* a getter called after a completed Start/Stop cycle has aborted
C4_Witness ==
  /\ aborted
  /\ abort_site \in Getters
  /\ last_completed = "stop"
  /\ ~is_running_

\* C5: a getter returns only while the stack is fully up, and the pointer it
\* returns is null or refers to an object that is alive when the getter
\* returns.
C5_ReturnedReferenceIsAlive ==
  [][\A t \in Threads : \A g \in Getters :
       Returns(t, g) =>
         /\ ret'[t].op = g
         /\ ret'[t].ptr = 0 \/ ret'[t].ptr \in alive'
         /\ reg.state = "up"
         /\ stack_thread_ \in alive]_vars

\* C5 as stated: no caller ever holds a pointer, returned by a getter, to an
\* object that Stop() has deleted.
C5_NoCallerHoldsDeletedObject == \A t \in Callers : ~Dangling(t)

\* a caller holds the live handler it got from GetHandler() while another
\* thread has invoked Stop()
C5_Witness ==
  /\ pc["c2"] = "returned"
  /\ ret["c2"].op = "GetHandler"
  /\ ret["c2"].ptr \in alive
  /\ pc["c1"] = "Stop"

C7_BridgesOnlyWhileModulesStarted ==
  /\ (acl_ # 0 \/ btm_ # 0) =>
       /\ reg.state = "up"
       /\ GetInstance("StorageModule")
       /\ GetInstance("Dumpsys")
       /\ stack_handler_ \in alive
       /\ {acl_, btm_} \ {0} \subseteq alive
  /\ btm_ # 0 => GetInstance("L2cap") /\ GetInstance("InquiryModule")
  /\ \A t \in Callers :
       /\ (pc[t] = "SE_legacy_acl" /\ flags["core"]) => btm_ # 0
       /\ pc[t] \in TeardownPcs \ {"Stop_delete_acl"} => acl_ = 0
       /\ pc[t] \in TeardownPcs \ {"Stop_delete_acl", "Stop_delete_btm"}
            => btm_ = 0

\* Stop has deleted the connection bridge and is about to delete btm_
C7_Witness ==
  /\ pc["c1"] = "Stop_delete_btm"
  /\ acl_ = 0
  /\ cfg.kind = "StartEverything"
  /\ cfg.flags["acl"]
  /\ ~cfg.flags["core"]
  /\ reg.state = "up"

\* C8 as stated: a start hook that calls back into the Stack is never left
\* waiting for mutex_ while the owner of mutex_ waits for the start-up.
C8_StartHookLookupCompletes ==
  ~(/\ wjob = "startup"
    /\ pc[Worker] \in WorkerCalls
    /\ mutex_.owner \in Callers
    /\ pc[mutex_.owner] = "StartUp_wait")

\* the modules each toggle contributes
Slice(n) ==
  CASE n = "hci" -> {"HciHal", "HciLayer", "StorageModule", "Dumpsys"}
    [] n = "controller" -> {"Controller"}
    [] n = "acl" -> {"AclManager"}
    [] n = "security" -> {"SecurityModule"}
    [] n = "core" -> {"AttModule", "LeAdvertisingManager", "LeScanningManager",
                      "L2capClassicModule", "L2capLeModule",
                      "ConnectabilityModule", "DiscoverabilityModule",
                      "InquiryModule", "NameModule", "NameDbModule",
                      "PageModule", "ScanModule", "StorageModule", "L2cap"}

\* the union of the slices of the toggles that f enables
ModulesFor(f) == UNION {Slice(n) : n \in {m \in FlagNames : f[m]}}

\* the positions of a Start at which its module list is complete
SelectedPcs == {"Start", "StartUp", "StartUp_wait", "Start_handler", "SE_leaf",
                "SI_leaf", "SE_btm", "SE_legacy_acl", "SE_running", "SE_notify"}

\* the hci notifications of the current cycle
CycleEvents == Range(SubSeq(hci_events, cfg.base + 1, Len(hci_events)))

\* C9 as stated: a cycle begun by StartEverything behaves, to its end, as the
\* toggle values that StartEverything read first prescribe: modules, leaf
\* assertions, bridges and both hci notifications.
C9_TogglesReadOnce ==
  cfg.kind = "StartEverything" =>
    /\ \A t \in Callers :
         pc[t] \in SelectedPcs => Range(modules[t]) = ModulesFor(cfg.flags)
    /\ abort_site = "StartEverything_leaf" =>
         ~({"StorageModule", "Dumpsys"} \subseteq ModulesFor(cfg.flags))
    /\ is_running_ =>
         /\ btm_ # 0 <=> cfg.flags["core"]
         /\ acl_ # 0 <=> (cfg.flags["acl"] /\ ~cfg.flags["core"])
    /\ last_completed = "start" =>
         ("reset_complete" \in CycleEvents <=> ~cfg.flags["core"])
    /\ \A t \in Callers :
         pc[t] \in TeardownPcs \cup {"Stop_assert"} =>
           ("shutting_down" \in CycleEvents <=> ~cfg.flags["core"])

TransportOnly == [n \in FlagNames |-> n = "hci"]

\* C10: the module list a Start hands to the registry holds exactly the union
\* of the slices of the enabled toggles (StartIdleMode: StorageModule alone),
\* the registry of a Running stack holds exactly those modules, and with only
\* the transport toggle set StorageModule is retrievable and AclManager is not.
C10_ModuleSetIsUnionOfSlices ==
  /\ \A t \in Callers :
       pc[t] \in SelectedPcs =>
         Range(modules[t]) = IF op[t] = "StartIdleMode" THEN {"StorageModule"}
                             ELSE ModulesFor(flags)
  /\ is_running_ =>
       Range(reg.started) = IF cfg.kind = "StartIdleMode" THEN {"StorageModule"}
                            ELSE ModulesFor(flags)
  /\ (is_running_ /\ cfg.kind = "StartEverything" /\ flags = TransportOnly) =>
       GetInstance("StorageModule") /\ ~GetInstance("AclManager")

\* the stack runs after StartEverything with only the transport toggle set
C10_Witness ==
  /\ is_running_
  /\ last_completed = "start"
  /\ cfg.kind = "StartEverything"
  /\ flags = TransportOnly
  /\ GetInstance("StorageModule")
  /\ ~GetInstance("AclManager")

CoreAndTransport == [n \in FlagNames |-> n \in {"hci", "core"}]

\* C11: while the stack runs after StartEverything, StorageModule and Dumpsys
\* are retrievable, and shim L2cap too when the core toggle is set; with the
\* core and transport toggles set no leaf assertion of StartEverything fails,
\* and a Stop aborts only when no Start has returned since the last Stop.
C11_LeafModulesRetrievable ==
  /\ (is_running_ /\ cfg.kind = "StartEverything") =>
       /\ GetInstance("StorageModule")
       /\ GetInstance("Dumpsys")
       /\ flags["core"] => GetInstance("L2cap")
  /\ flags = CoreAndTransport =>
       abort_site \notin {"StartEverything_leaf", "Start"}
  /\ abort_site = "Stop" => last_completed # "start"

\* StartEverything with the core and transport toggles has returned, and so
\* has the Stop that followed it
C11_Witness ==
  /\ flags = CoreAndTransport
  /\ last_completed = "stop"
  /\ pc["c1"] = "idle"
  /\ ~aborted
  /\ cycles = 1
  /\ next_id = AddressOfStackManager + 4

\* C12 as stated: Stop never waits (for the registry's shut-down or for the
\* worker's exit) while the worker waits for the mutex_ that Stop holds.
C12_StopNeverWaitsForBlockedWorker ==
  ~(/\ pc[Worker] \in WorkerCalls
    /\ mutex_.owner \in Callers
    /\ pc[mutex_.owner] \in {"ShutDown_wait", "Stop_delete_thread"})

\* C13: when IsRunning() returns true, or GetHandler() or GetStackManager()
\* returns, no Start or Stop is in progress (mutex_ is free), the worker thread
\* and the handler exist, and the registry is up; GetHandler() returns a
\* non-null handler.
C13_QueriesSeeNoIntermediateState ==
  [][\A t \in Threads :
       (\/ Returns(t, "IsRunning") /\ ret'[t].bool
        \/ Returns(t, "GetHandler")
        \/ Returns(t, "GetStackManager")) =>
         /\ mutex_.owner = NoThread
         /\ \A u \in Callers : pc[u] \notin SelectedPcs \cup TeardownPcs
         /\ stack_thread_ # 0 /\ stack_thread_ \in alive
         /\ stack_handler_ # 0 /\ stack_handler_ \in alive
         /\ reg.state = "up"
         /\ pc[Worker] \notin {"absent", "exited"}
         /\ Returns(t, "GetHandler") => ret'[t].ptr = stack_handler_]_vars

\* a task on the worker thread called IsRunning() and got true
C13_Witness ==
  /\ pc[Worker] = "job"
  /\ wjob = "task"
  /\ ret[Worker].op = "IsRunning"
  /\ ret[Worker].bool
  /\ reg.state = "up"

\* C14: while the stack runs after StartEverything, btm_ exists exactly when
\* the core toggle is set and acl_ exactly when the acl toggle is set and the
\* core toggle is not; the two bridges never exist together; after
\* StartIdleMode neither exists, and GetAcl() and GetBtm() return null.
C14_BridgesFollowToggles ==
  /\ [](/\ ~(acl_ # 0 /\ btm_ # 0)
        /\ (is_running_ /\ cfg.kind = "StartEverything") =>
             /\ btm_ # 0 <=> flags["core"]
             /\ acl_ # 0 <=> (flags["acl"] /\ ~flags["core"])
        /\ (is_running_ /\ cfg.kind = "StartIdleMode") =>
             acl_ = 0 /\ btm_ = 0)
  /\ [][\A t \in Threads :
          (cfg.kind = "StartIdleMode"
             /\ (Returns(t, "GetAcl") \/ Returns(t, "GetBtm")))
            => ret'[t].ptr = 0]_vars

\* GetAcl() has returned null on a stack started by StartIdleMode, in a cycle
\* that follows one in which a bridge existed
C14_Witness ==
  /\ pc["c2"] = "returned"
  /\ ret["c2"].op = "GetAcl"
  /\ ret["c2"].ptr = 0
  /\ cfg.kind = "StartIdleMode"
  /\ is_running_
  /\ cycles = 2
  /\ next_id > AddressOfStackManager + 5

\* the pointer fields of the Stack
Pointers == {stack_thread_, stack_handler_, acl_, btm_}

\* C15: whenever the stack is Idle and no Start or Stop is in progress, the
\* four pointers are null, no object of a cycle is alive, the registry is down
\* and the worker is gone; a pointer is only ever set to an object that did not
\* exist before, and a Start aborts on its assertion only while Running.
C15_NothingSurvivesACycle ==
  /\ []((~is_running_ /\ mutex_.owner = NoThread) =>
          /\ Pointers = {0}
          /\ alive = {AddressOfStackManager}
          /\ reg.state = "down" /\ reg.started = <<>>
          /\ pc[Worker] = "absent"
          /\ queue = 0)
  /\ [](abort_site \in StartOps \cup {"Start"} => is_running_)
  /\ [][/\ \A p \in Pointers' \ (Pointers \cup {0}) :
             p >= next_id /\ p \notin alive /\ p \in alive'
        /\ alive' \subseteq alive \cup Pointers']_vars

\* the second Start of a behaviour has returned; its thread and handler are
\* new objects
C15_Witness ==
  /\ cycles = 2
  /\ last_completed = "start"
  /\ is_running_
  /\ mutex_.owner = NoThread
  /\ stack_thread_ > AddressOfStackManager + 2
  /\ stack_handler_ > stack_thread_
  /\ alive = {AddressOfStackManager} \cup (Pointers \ {0})

\* C16 as stated: in every cycle, a Stop that has passed its assertion has
\* issued hci_on_shutting_down exactly if the Start of the cycle issued
\* hci_on_reset_complete.
C16_NotificationsPaired ==
  \A t \in Callers :
    pc[t] \in TeardownPcs =>
      ("shutting_down" \in CycleEvents <=> "reset_complete" \in CycleEvents)

\* an hci notification is issued in this step
Notified(e) == hci_events' = Append(hci_events, e)

\* C16: in a cycle begun by StartEverything, Stop issues hci_on_shutting_down
\* exactly if the Start issued hci_on_reset_complete; a cycle begun by
\* StartIdleMode issues no hci_on_reset_complete, and its Stop issues
\* hci_on_shutting_down exactly if the core toggle is off;
\* hci_on_reset_complete is issued only by StartEverything, once is_running_
\* is true.
C16_NotificationsPairedAfterStartEverything ==
  /\ [](\A t \in Callers :
          pc[t] \in TeardownPcs =>
            /\ cfg.kind = "StartEverything" =>
                 ("shutting_down" \in CycleEvents
                    <=> "reset_complete" \in CycleEvents)
            /\ cfg.kind = "StartIdleMode" =>
                 /\ "reset_complete" \notin CycleEvents
                 /\ "shutting_down" \in CycleEvents <=> ~flags["core"])
  /\ [][/\ hci_events' # hci_events =>
             Notified("reset_complete") \/ Notified("shutting_down")
        /\ Notified("reset_complete") =>
             /\ is_running_
             /\ cfg.kind = "StartEverything"
             /\ \E t \in Callers : pc[t] = "SE_notify"
        /\ Notified("shutting_down") =>
             \E t \in Callers : pc[t] = "Stop"]_vars

\* the Stop of a cycle begun by StartEverything has issued
\* hci_on_shutting_down, after the hci_on_reset_complete of its Start
C16_Witness ==
  /\ pc["c1"] \in TeardownPcs
  /\ cfg.kind = "StartEverything"
  /\ CycleEvents = {"reset_complete", "shutting_down"}

\* C17 as stated: a Stop() invoked while the stack is not Running issues no
\* notification and changes no field of the Stack.
C17_FailedStopHasNoEffect ==
  [][\A t \in Callers :
       (pc[t] \in {"Stop", "Stop_assert"} /\ ~is_running_) =>
         /\ hci_events' = hci_events
         /\ UNCHANGED <<is_running_, ptrs, reg>>]_vars

\* C18 as stated: with at least one toggle set, StartEverything trips no leaf
\* assertion.
C18_AnyCombinationStarts ==
  (\E n \in FlagNames : flags[n]) => abort_site # "StartEverything_leaf"

====
